---- MODULE Spec2Model ----
(***************************************************************************)
(* Model of migrate_drive_files.py: the retry decorator, the Drive helper   *)
(* functions, the recursive process_item, process_csv and main, run         *)
(* against a small remote Drive tree whose calls may fail in any pattern.   *)
(* The Python call stack is the variable stack; one action is one segment   *)
(* of a function's body between two calls it makes, or one attempt of a     *)
(* decorated helper.                                                        *)
(***************************************************************************)
EXTENDS Integers, Sequences, FiniteSets, TLC

(***************************************************************************)
(* Program constants                                                        *)
(***************************************************************************)
MAX_RETRIES == 5

BACKUP_FOLDER_NAME == "bak"

FOLDER_MIME == "application/vnd.google-apps.folder"

DOC_MIME == "application/vnd.google-apps.document"

PDF_MIME == "application/pdf"

\* error.resp.status values the decorator retries
TRANSIENT_STATUS == {429, 500, 502, 503, 504}

FILE_MARK == "drive.google.com/file/d/"

FOLDER_MARK == "drive.google.com/drive/folders/"

(***************************************************************************)
(* Bounds of the model                                                      *)
(***************************************************************************)
\* number of identifiers the remote has for new items: enough for a first
\* run and a second run over its result, every lost response included, so
\* that the remote never refuses a creation for want of room
MaxNew == 10

\* largest number of children the remote puts in one page of a listing
MaxPage == 2

\* number of transport failures that hit after the remote applied the call
MaxLost == 1

\* largest number of tokens of a url of the rows the extraction is run on
MaxUrlLen == 5

(***************************************************************************)
(* Values                                                                   *)
(***************************************************************************)
\* Python's None, where an identifier is expected
None == "None"

ROOT == "root"

\* Python's None, where a metadata dict is expected
NoMeta == [name |-> "", mimeType |-> ""]

OrigIds == {"f1", "F", "a", "G", "b"}

NewIdPool == <<"n1", "n2", "n3", "n4", "n5", "n6", "n7", "n8", "n9", "n10",
              "n11", "n12">>

NewIds == {NewIdPool[i] : i \in 1..MaxNew}

\* a 'bak' folder that may exist before the run
OldBak == "bak0"

Ids == OrigIds \cup NewIds \cup {OldBak}

\* the order in which the remote lists items
IdOrder == <<"f1", "F", "a", "G", "b", OldBak>> \o SubSeq(NewIdPool, 1, MaxNew)

Absent == [kind |-> "absent", parents |-> {}, name |-> "", src |-> None]

Item(kind, parent, name, src) ==
    [kind |-> kind, parents |-> {parent}, name |-> name, src |-> src]

\* the remote tree before the run: f1 and folder F in the root, F holding
\* file a and folder G, G holding file b
InitialDrive(withBak) ==
    [i \in Ids |->
        CASE i = "f1" -> Item(DOC_MIME, ROOT, "report", None)
          [] i = "F"  -> Item(FOLDER_MIME, ROOT, "dir", None)
          [] i = "a"  -> Item(PDF_MIME, "F", "a.pdf", None)
          [] i = "G"  -> Item(FOLDER_MIME, "F", "sub", None)
          [] i = "b"  -> Item(PDF_MIME, "G", "b.pdf", None)
          [] i = OldBak /\ withBak -> Item(FOLDER_MIME, ROOT, BACKUP_FOLDER_NAME, None)
          [] OTHER -> Absent]

OrigParents(i) == InitialDrive(FALSE)[i].parents

(***************************************************************************)
(* Manifest rows.  A string is a sequence of tokens; the two markers, "/"   *)
(* and "?" are tokens of their own.                                         *)
(***************************************************************************)
UrlFile(id) == <<"https://", FILE_MARK, id, "/", "view">>

UrlFolder(id) == <<"https://", FOLDER_MARK, id, "?", "usp=sharing">>

UrlOther == <<"https://", "example.com/", "x">>

HeaderRow == <<<<"name">>, <<"url">>>>

RowFile(id) == <<<<"doc">>, UrlFile(id)>>

RowFolder(id) == <<<<"dir">>, UrlFolder(id)>>

RowOther == <<<<"other">>, UrlOther>>

RowShort == <<<<"short">>>>

\* the CSV files read: a header row, then the data rows
Manifests ==
    { <<HeaderRow, RowFile("f1"), RowFolder("F")>>,
      <<HeaderRow, RowShort, RowFile("zz"), RowOther, RowFile("f1")>> }

\* index of the first occurrence of token t in s, 0 when there is none
RECURSIVE IndexOf(_, _, _)
IndexOf(s, t, i) ==
    IF i > Len(s) THEN 0
    ELSE IF s[i] = t THEN i
    ELSE IndexOf(s, t, i + 1)

\* s.split(t)[0]
SplitHead(s, t) ==
    LET k == IndexOf(s, t, 1)
    IN IF k = 0 THEN s ELSE SubSeq(s, 1, k - 1)

\* s.split(t)[1], for s that contains t
SplitSecond(s, t) ==
    LET k == IndexOf(s, t, 1)
        rest == SubSeq(s, k + 1, Len(s))
    IN SplitHead(rest, t)

\* s without the blanks at its start
RECURSIVE StripLeft(_)
StripLeft(s) ==
    IF Len(s) > 0 /\ s[1] = " " THEN StripLeft(SubSeq(s, 2, Len(s))) ELSE s

\* s without the blanks at its end
RECURSIVE StripRight(_)
StripRight(s) ==
    IF Len(s) > 0 /\ s[Len(s)] = " " THEN StripRight(SubSeq(s, 1, Len(s) - 1)) ELSE s

\* s.strip(); " " is the token of white space
Strip(s) == StripRight(StripLeft(s))

\* an extraction that cuts both kinds of url at "/"
ExtractIdUpToSlash(url) ==
    IF IndexOf(url, FILE_MARK, 1) > 0
    THEN SplitHead(SplitSecond(url, FILE_MARK), "/")
    ELSE IF IndexOf(url, FOLDER_MARK, 1) > 0
    THEN SplitHead(SplitSecond(url, FOLDER_MARK), "/")
    ELSE <<>>

\* the file_id process_csv computes from a url; <<>> is the falsy value
ExtractId(url) ==
    IF IndexOf(url, FILE_MARK, 1) > 0
    THEN SplitHead(SplitSecond(url, FILE_MARK), "/")
    ELSE IF IndexOf(url, FOLDER_MARK, 1) > 0
    THEN SplitHead(SplitSecond(url, FOLDER_MARK), "?")
    ELSE <<>>

\* the identifier a non-empty extracted string names on the remote
IdOf(s) == IF Len(s) = 1 THEN s[1] ELSE "unknown"

\* row is skipped: empty or a single column
RowSkipped(r) == Len(r) = 0 \/ Len(r) <= 1

(***************************************************************************)
(* State                                                                    *)
(***************************************************************************)
VARIABLES
    drive,            \* the remote tree: id -> [kind, parents, name, src]
    manifest,         \* the rows of the CSV file, the header first
    env,              \* "flaky": remote calls may fail; "reliable": none does
    csv_exists,       \* there is a file at CSV_FILE
    pcMain,           \* where main is
    backup_folder_id, \* main's backup_folder_id
    row,              \* index of the next row the csv reader gives
    stack,            \* the call stack below process_csv / main
    ret,              \* the value the call that just returned gave
    aborted,          \* the exception that ended process_csv or main
    entered,          \* ids process_item was invoked on
    enteredInRow,     \* ids process_item was invoked on for the current row
    returned,         \* ids a process_item invocation returned for
    reported,         \* ids a failure line was printed for
    lastOutcome,      \* how the decorated call that just ended did end
    listed,           \* folder id -> what its last listing gave
    rowsInvoked,      \* rows process_item was invoked for
    relocated,        \* ids the remote moved on a move_file call
    lost              \* transport failures so far that hit after the effect

vars == <<drive, manifest, env, csv_exists, pcMain, backup_folder_id, row, stack, ret, aborted,
          entered, enteredInRow, returned, reported, lastOutcome, listed,
          rowsInvoked, relocated, lost>>

(***************************************************************************)
(* Frames and return values                                                 *)
(***************************************************************************)
Frame(fn, file_id, dest, name) ==
    [fn |-> fn, file_id |-> file_id, dest |-> dest, name |-> name,
     pc |-> "start", retries |-> 0, attempts |-> 0, meta |-> NoMeta,
     new_folder_id |-> None, items |-> <<>>, idx |-> 1, copied |-> None]

RetNone == [id |-> None, meta |-> NoMeta, files |-> <<>>, token |-> FALSE]

RetId(x) == [RetNone EXCEPT !.id = x]

RetMeta(m) == [RetNone EXCEPT !.meta = m]

RetList(files, token) == [RetNone EXCEPT !.files = files, !.token = token]

NoOutcome ==
    [op |-> "", file_id |-> None, attempts |-> 0, retries |-> 0,
     result |-> "", cause |-> ""]

Top == stack[Len(stack)]

Pop(s) == SubSeq(s, 1, Len(s) - 1)

Push(s, f) == Append(s, f)

ReplaceTop(s, f) == [s EXCEPT ![Len(s)] = f]

Running(fn, pc) ==
    /\ stack # <<>>
    /\ Top.fn = fn
    /\ Top.pc = pc

(***************************************************************************)
(* The remote service                                                       *)
(***************************************************************************)
HttpStatus == {403, 404} \cup TRANSIENT_STATUS

HttpError(s) == [type |-> "HttpError", status |-> s, applied |-> FALSE]

OSError(applied) == [type |-> "OSError", status |-> 0, applied |-> applied]

Ok == [type |-> "ok", status |-> 200, applied |-> TRUE]

Exists(d, id) == id \in Ids /\ d[id].kind # "absent"

\* the failures the remote may answer any call with
Failures ==
    IF env = "flaky"
    THEN {HttpError(s) : s \in HttpStatus} \cup {OSError(FALSE)}
    ELSE {}

\* a transport failure that hits after the remote applied the call
LostResponses(nLost) ==
    IF env = "flaky" /\ nLost < MaxLost THEN {OSError(TRUE)} ELSE {}

\* outcomes of a call that reads item id: 404 for an item that is not there
ReadOutcomes(d, id) ==
    Failures \cup (IF Exists(d, id) THEN {Ok} ELSE {HttpError(404)})

\* outcomes of a query not bound to one item
QueryOutcomes == Failures \cup {Ok}

FreeIds(d) == {i \in NewIds : d[i].kind = "absent"}

\* the identifier the remote gives the next item it creates
FreshId(d) == NewIdPool[CHOOSE k \in 1..MaxNew :
                  /\ NewIdPool[k] \in FreeIds(d)
                  /\ \A j \in 1..(k - 1) : NewIdPool[j] \notin FreeIds(d)]

\* outcomes of a call that creates an item: possible only within the quota
\* (403 beyond it, 404 for a source that is not there); a transport failure
\* may hit before or after the remote applied the call
CreateOutcomes(d, possible, nLost) ==
    Failures
    \cup (IF possible /\ FreeIds(d) # {}
         THEN {Ok} \cup LostResponses(nLost)
         ELSE {HttpError(IF possible THEN 403 ELSE 404)})

\* outcomes of files().update on item id
UpdateOutcomes(d, id, nLost) ==
    Failures
    \cup (IF Exists(d, id) THEN {Ok} \cup LostResponses(nLost) ELSE {HttpError(404)})

MetaOf(d, id) == [name |-> d[id].name, mimeType |-> d[id].kind]

\* the children of folder_id, in the remote's order
ChildrenSeq(d, folder_id) ==
    SelectSeq(IdOrder, LAMBDA i : Exists(d, i) /\ folder_id \in d[i].parents)

\* files().create of a folder
RemoteCreateFolder(d, folder_name, parent_id, src) ==
    [d EXCEPT ![FreshId(d)] =
        Item(FOLDER_MIME, IF parent_id = None THEN ROOT ELSE parent_id, folder_name, src)]

\* files().copy: the copy takes the name given and the parents of the source
RemoteCopy(d, file_id, name) ==
    [d EXCEPT ![FreshId(d)] =
        [kind |-> d[file_id].kind, parents |-> d[file_id].parents,
         name |-> name, src |-> file_id]]

\* an update that removes the old parents and adds none
UpdateParentsOrphan(parents, addParents, removeParents) ==
    parents \ removeParents

\* the parents files().update leaves the item with: removeParents taken away,
\* addParents added
UpdateParents(parents, addParents, removeParents) ==
    (parents \ removeParents) \cup {addParents}

RemoteUpdate(d, file_id, addParents, removeParents) ==
    [d EXCEPT ![file_id].parents = UpdateParents(@, addParents, removeParents)]

(***************************************************************************)
(* Control: the part of the state every call and return touches             *)
(***************************************************************************)
\* ret is read by the step after the return and lastOutcome describes the
\* step just taken: every step starts from both cleared
Ctl ==
    [stack |-> stack, ret |-> RetNone, pcMain |-> pcMain, aborted |-> aborted,
     returned |-> returned, reported |-> reported, lastOutcome |-> NoOutcome]

Apply(c) ==
    /\ stack' = c.stack
    /\ ret' = c.ret
    /\ pcMain' = c.pcMain
    /\ aborted' = c.aborted
    /\ returned' = c.returned
    /\ reported' = c.reported
    /\ lastOutcome' = c.lastOutcome

ExcClass(e) ==
    IF e.type = "HttpError"
    THEN (IF e.status \in TRANSIENT_STATUS THEN "HttpTransient" ELSE "HttpPermanent")
    ELSE e.type

Outcome(f, result, cause) ==
    [op |-> f.fn, file_id |-> f.file_id, attempts |-> f.attempts,
     retries |-> f.retries, result |-> result, cause |-> cause]

\* a print of a failure concerning item id
Report(c, id) == [c EXCEPT !.reported = @ \cup {id}]

\* the decorated function of frame f returns r to its caller
Complete(c, f, r, result, cause) ==
    [c EXCEPT !.stack = Pop(@), !.ret = r,
              !.lastOutcome = Outcome(f, result, cause)]

\* process_item returns to the loop of its caller
PIReturn(c) ==
    [c EXCEPT !.stack = Pop(@), !.ret = RetNone,
              !.returned = @ \cup {c.stack[Len(c.stack)].file_id}]

\* an exception no frame of the stack handles: from process_csv's loop it
\* reaches the except of process_csv, after which main prints its last line;
\* from main's own call of create_folder nothing catches it
Abort(c, f, e, cause) ==
    [c EXCEPT !.stack = <<>>, !.ret = RetNone,
              !.pcMain = IF c.pcMain = "create"
                         THEN (IF e.type = "HttpError" THEN "aborted" ELSE "crashed")
                         ELSE "finished",
              !.aborted = e.type,
              !.lastOutcome = Outcome(f, "raise", cause)]

\* exception e leaves the wrapper of frame f, the top of the stack
Escape(c, f, e, cause) ==
    IF /\ e.type = "HttpError"
       /\ f.fn = "list_files_in_folder"
       /\ Len(c.stack) >= 2
       /\ c.stack[Len(c.stack) - 1].fn = "process_item"
    THEN LET c1 == [c EXCEPT !.stack = Pop(@),
                             !.lastOutcome = Outcome(f, "raise", cause)]
         IN PIReturn(Report(c1, f.file_id))
    ELSE Abort(c, f, e, cause)

\* a loop that goes round once more
LoopCondOffByOne(retries) == retries <= MAX_RETRIES

\* while retries < MAX_RETRIES
LoopCond(retries) == retries < MAX_RETRIES

\* the except clauses of wrapper that retry
Retried(e) ==
    \/ e.type = "HttpError" /\ e.status \in TRANSIENT_STATUS
    \/ e.type = "OSError"

MaxRetriesExceeded == [type |-> "Exception", status |-> 0, applied |-> FALSE]

\* wrapper of retry_with_backoff, when the call of func by frame f raised e
retry_with_backoff(c, f, e) ==
    IF Retried(e)
    THEN LET g == [f EXCEPT !.retries = @ + 1, !.pc = "start"]
         IN IF LoopCond(g.retries)
            THEN [c EXCEPT !.stack = ReplaceTop(@, g)]
            ELSE Escape(c, g, MaxRetriesExceeded, "MaxRetries")
    ELSE Escape(c, f, e, ExcClass(e))

\* one more call of func by the wrapper
Attempt(f) == [f EXCEPT !.attempts = @ + 1]

(***************************************************************************)
(* main and process_csv                                                     *)
(***************************************************************************)
BakFolders(d) ==
    SelectSeq(IdOrder, LAMBDA i :
        /\ Exists(d, i)
        /\ d[i].kind = FOLDER_MIME
        /\ d[i].name = BACKUP_FOLDER_NAME
        /\ ROOT \in d[i].parents)

MainLookup ==
    /\ pcMain = "lookup"
    /\ \E o \in QueryOutcomes :
        LET folders == BakFolders(drive)
        IN /\ Apply(
                IF o.type = "HttpError"
                THEN [Ctl EXCEPT !.pcMain = "aborted", !.aborted = "HttpError"]
                ELSE IF o.type = "OSError"
                THEN [Ctl EXCEPT !.pcMain = "crashed", !.aborted = "OSError"]
                ELSE IF folders # <<>>
                THEN [Ctl EXCEPT !.pcMain = "csv_open"]
                ELSE [Ctl EXCEPT !.pcMain = "create",
                                 !.stack = <<Frame("create_folder", None, None,
                                                   BACKUP_FOLDER_NAME)>>])
           /\ backup_folder_id' =
                IF o.type = "ok" /\ folders # <<>> THEN folders[1] ELSE None
    /\ UNCHANGED <<drive, manifest, env, csv_exists, row, entered, enteredInRow, listed, rowsInvoked, relocated, lost>>

\* a test that takes the backup folder for created
BackupFolderAssumed(id) == FALSE

\* if not backup_folder_id
NoBackupFolder(id) == id = None

\* the return of create_folder to main
MainAfterCreate ==
    /\ pcMain = "create"
    /\ stack = <<>>
    /\ backup_folder_id' = ret.id
    /\ Apply([Ctl EXCEPT !.pcMain = IF NoBackupFolder(ret.id) THEN "aborted" ELSE "csv_open"])
    /\ UNCHANGED <<drive, manifest, env, csv_exists, row, entered, enteredInRow, listed, rowsInvoked, relocated, lost>>

\* open the file, next(reader, None); without a file open raises
\* FileNotFoundError, process_csv prints it and main prints its last line
CsvOpen ==
    /\ pcMain = "csv_open"
    /\ IF csv_exists
       THEN /\ row' = 2
            /\ Apply([Ctl EXCEPT !.pcMain = "csv"])
       ELSE /\ row' = row
            /\ Apply([Ctl EXCEPT !.pcMain = "finished", !.aborted = "FileNotFoundError"])
    /\ UNCHANGED <<drive, manifest, env, csv_exists, backup_folder_id, entered, enteredInRow, listed, rowsInvoked,
                   relocated, lost>>

\* one iteration of the for loop of process_csv, up to the call of process_item
CsvRow ==
    /\ pcMain = "csv"
    /\ stack = <<>>
    /\ row <= Len(manifest)
    /\ LET r == manifest[row]
           url == IF RowSkipped(r) THEN <<>> ELSE Strip(r[2])
           file_id == ExtractId(url)
       IN IF file_id = <<>>
          THEN /\ Apply(Ctl)
               /\ UNCHANGED <<rowsInvoked, enteredInRow>>
          ELSE /\ Apply([Ctl EXCEPT !.stack =
                            <<Frame("process_item", IdOf(file_id), backup_folder_id, "")>>])
               /\ rowsInvoked' = rowsInvoked \cup {row}
               /\ enteredInRow' = {}
    /\ row' = row + 1
    /\ UNCHANGED <<drive, manifest, env, csv_exists, backup_folder_id, entered, listed, relocated, lost>>

\* the loop of process_csv ends; main prints "Script finished."
CsvEnd ==
    /\ pcMain = "csv"
    /\ stack = <<>>
    /\ row > Len(manifest)
    /\ Apply([Ctl EXCEPT !.pcMain = "finished"])
    /\ UNCHANGED <<drive, manifest, env, csv_exists, backup_folder_id, row, entered, enteredInRow, listed, rowsInvoked,
                   relocated, lost>>

(***************************************************************************)
(* The decorated Drive helpers: one action is one call of func by wrapper   *)
(***************************************************************************)
GetMetadataAttempt ==
    /\ Running("get_file_metadata", "start")
    /\ LoopCond(Top.retries)
    /\ LET f == Attempt(Top)
       IN \E o \in ReadOutcomes(drive, f.file_id) :
            Apply(
                IF o.type = "ok"
                THEN Complete(Ctl, f, RetMeta(MetaOf(drive, f.file_id)), "value", "none")
                ELSE IF o.type = "HttpError"
                THEN Complete(Report(Ctl, f.file_id), f, RetNone, "None", ExcClass(o))
                ELSE retry_with_backoff(Ctl, f, o))
    /\ UNCHANGED <<drive, manifest, env, csv_exists, backup_folder_id, row, entered, enteredInRow, listed, rowsInvoked,
                   relocated, lost>>

CreateFolderAttempt ==
    /\ Running("create_folder", "start")
    /\ LoopCond(Top.retries)
    /\ LET f == Attempt(Top)
       IN \E o \in CreateOutcomes(drive, TRUE, lost) :
            /\ Apply(
                IF o.type = "ok"
                THEN Complete(Ctl, f, RetId(FreshId(drive)), "value", "none")
                ELSE IF o.type = "HttpError"
                THEN Complete(Report(Ctl, f.file_id), f, RetNone, "None", ExcClass(o))
                ELSE retry_with_backoff(Ctl, f, o))
            /\ drive' = IF o.applied
                        THEN RemoteCreateFolder(drive, f.name, f.dest, f.file_id)
                        ELSE drive
            /\ lost' = IF o.type = "OSError" /\ o.applied THEN lost + 1 ELSE lost
    /\ UNCHANGED <<manifest, env, csv_exists, backup_folder_id, row, entered, enteredInRow, listed, rowsInvoked, relocated>>

\* copy_file up to its call of get_file_metadata
CopyFileStart ==
    /\ Running("copy_file", "start")
    /\ LoopCond(Top.retries)
    /\ LET f == [Attempt(Top) EXCEPT !.pc = "after_meta"]
       IN Apply([Ctl EXCEPT !.stack =
                    Push(ReplaceTop(@, f), Frame("get_file_metadata", f.file_id, None, ""))])
    /\ UNCHANGED <<drive, manifest, env, csv_exists, backup_folder_id, row, entered, enteredInRow, listed, rowsInvoked,
                   relocated, lost>>

\* copy_file from the return of get_file_metadata
CopyFileAfterMeta ==
    /\ Running("copy_file", "after_meta")
    /\ LET f == [Top EXCEPT !.meta = ret.meta]
       IN IF f.meta = NoMeta
          THEN /\ Apply(Complete(Report(Ctl, f.file_id), f, RetNone, "None", "nometa"))
               /\ UNCHANGED <<drive, lost>>
          ELSE \E o \in CreateOutcomes(drive, Exists(drive, f.file_id), lost) :
                /\ Apply(
                    IF o.type = "ok"
                    THEN Complete(Ctl, f, RetId(FreshId(drive)), "value", "none")
                    ELSE IF o.type = "HttpError"
                    THEN Complete(Report(Ctl, f.file_id), f, RetNone, "None", ExcClass(o))
                    ELSE retry_with_backoff(Ctl, f, o))
                /\ drive' = IF o.applied
                            THEN RemoteCopy(drive, f.file_id, f.meta.name)
                            ELSE drive
                /\ lost' = IF o.type = "OSError" /\ o.applied THEN lost + 1 ELSE lost
    /\ UNCHANGED <<manifest, env, csv_exists, backup_folder_id, row, entered, enteredInRow, listed, rowsInvoked, relocated>>

NoParents == [type |-> "TypeError", status |-> 0, applied |-> FALSE]

\* move_file: files().get of the parents, then files().update
MoveFileAttempt ==
    /\ Running("move_file", "start")
    /\ LoopCond(Top.retries)
    /\ LET f == Attempt(Top)
           previous_parents == drive[f.file_id].parents
       IN \E o1 \in ReadOutcomes(drive, f.file_id) :
            IF o1.type = "HttpError"
            THEN /\ Apply(Complete(Report(Ctl, f.file_id), f, RetNone, "None", ExcClass(o1)))
                 /\ UNCHANGED <<drive, relocated, lost>>
            ELSE IF o1.type = "OSError"
            THEN /\ Apply(retry_with_backoff(Ctl, f, o1))
                 /\ UNCHANGED <<drive, relocated, lost>>
            ELSE IF previous_parents = {}
            THEN /\ Apply(Abort(Ctl, f, NoParents, "TypeError"))
                 /\ UNCHANGED <<drive, relocated, lost>>
            ELSE \E o2 \in UpdateOutcomes(drive, f.file_id, lost) :
                /\ Apply(
                    IF o2.type = "ok"
                    THEN Complete(Ctl, f, RetId(f.file_id), "value", "none")
                    ELSE IF o2.type = "HttpError"
                    THEN Complete(Report(Ctl, f.file_id), f, RetNone, "None", ExcClass(o2))
                    ELSE retry_with_backoff(Ctl, f, o2))
                /\ drive' = IF o2.applied
                            THEN RemoteUpdate(drive, f.file_id, f.dest, previous_parents)
                            ELSE drive
                /\ relocated' = IF o2.applied THEN relocated \cup {f.file_id} ELSE relocated
                /\ lost' = IF o2.type = "OSError" /\ o2.applied THEN lost + 1 ELSE lost
    /\ UNCHANGED <<manifest, env, csv_exists, backup_folder_id, row, entered, enteredInRow, listed, rowsInvoked>>

\* download_and_upload_file up to its call of get_file_metadata
DownloadStart ==
    /\ Running("download_and_upload_file", "start")
    /\ LoopCond(Top.retries)
    /\ LET f == [Attempt(Top) EXCEPT !.pc = "after_meta"]
       IN Apply([Ctl EXCEPT !.stack =
                    Push(ReplaceTop(@, f), Frame("get_file_metadata", f.file_id, None, ""))])
    /\ UNCHANGED <<drive, manifest, env, csv_exists, backup_folder_id, row, entered, enteredInRow, listed, rowsInvoked,
                   relocated, lost>>

\* the export mime type of an editable document type, None for the others
ExportMime(mime_type) ==
    IF mime_type = DOC_MIME
    THEN "application/vnd.openxmlformats-officedocument.wordprocessingml.document"
    ELSE IF mime_type = "application/vnd.google-apps.spreadsheet"
    THEN "application/vnd.openxmlformats-officedocument.spreadsheetml.sheet"
    ELSE IF mime_type = "application/vnd.google-apps.presentation"
    THEN "application/vnd.openxmlformats-officedocument.presentationml.presentation"
    ELSE None

\* MediaIoBaseUpload is not a name of the module
UndefinedName == [type |-> "NameError", status |-> 0, applied |-> FALSE]

\* download_and_upload_file from the return of get_file_metadata: the
\* download, then the construction of the upload
DownloadAfterMeta ==
    /\ Running("download_and_upload_file", "after_meta")
    /\ LET f == [Top EXCEPT !.meta = ret.meta]
       IN IF f.meta = NoMeta
          THEN Apply(Complete(Report(Ctl, f.file_id), f, RetNone, "None", "nometa"))
          ELSE \E o \in ReadOutcomes(drive, f.file_id) :
                Apply(
                    IF o.type = "HttpError"
                    THEN Complete(Report(Ctl, f.file_id), f, RetNone, "None", ExcClass(o))
                    ELSE IF o.type = "OSError"
                    THEN retry_with_backoff(Ctl, f, o)
                    ELSE Abort(Ctl, f, UndefinedName, "NameError"))
    /\ UNCHANGED <<drive, manifest, env, csv_exists, backup_folder_id, row, entered, enteredInRow, listed, rowsInvoked,
                   relocated, lost>>

\* the first n elements of s
Take(s, n) == SubSeq(s, 1, IF n < Len(s) THEN n ELSE Len(s))

\* the page sizes the remote may choose; a reliable remote fills the page
PageSizes == IF env = "flaky" THEN 1..MaxPage ELSE {MaxPage}

\* list_files_in_folder: one files().list, which gives the first page
ListAttempt ==
    /\ Running("list_files_in_folder", "start")
    /\ LoopCond(Top.retries)
    /\ LET f == Attempt(Top)
           children == ChildrenSeq(drive, f.file_id)
       IN \E o \in ReadOutcomes(drive, f.file_id), size \in PageSizes :
            Apply(
                IF o.type = "ok"
                THEN Complete(Ctl, f, RetList(Take(children, size), Len(children) > size),
                              "value", "none")
                ELSE retry_with_backoff(Ctl, f, o))
    /\ UNCHANGED <<drive, manifest, env, csv_exists, backup_folder_id, row, entered, enteredInRow, listed, rowsInvoked,
                   relocated, lost>>

(***************************************************************************)
(* process_item                                                             *)
(***************************************************************************)
NoListing ==
    [paged |-> FALSE, looped |-> FALSE, items |-> <<>>, children |-> <<>>,
     mirror |-> None]

\* process_item up to its call of get_file_metadata
PIStart ==
    /\ Running("process_item", "start")
    /\ LET f == [Top EXCEPT !.pc = "after_meta"]
       IN Apply([Ctl EXCEPT !.stack =
                    Push(ReplaceTop(@, f), Frame("get_file_metadata", f.file_id, None, ""))])
    /\ entered' = entered \cup {Top.file_id}
    /\ enteredInRow' = enteredInRow \cup {Top.file_id}
    /\ UNCHANGED <<drive, manifest, env, csv_exists, backup_folder_id, row, listed, rowsInvoked,
                   relocated, lost>>

\* the test of the metadata, then the call of create_folder or of copy_file
PIAfterMeta ==
    /\ Running("process_item", "after_meta")
    /\ LET f == [Top EXCEPT !.meta = ret.meta]
       IN Apply(
            IF f.meta = NoMeta
            THEN PIReturn(Report(Ctl, f.file_id))
            ELSE IF f.meta.mimeType = FOLDER_MIME
            THEN [Ctl EXCEPT !.stack =
                    Push(ReplaceTop(@, [f EXCEPT !.pc = "after_create"]),
                         Frame("create_folder", f.file_id, f.dest, f.meta.name))]
            ELSE [Ctl EXCEPT !.stack =
                    Push(ReplaceTop(@, [f EXCEPT !.pc = "after_copy"]),
                         Frame("copy_file", f.file_id, None, ""))])
    /\ UNCHANGED <<drive, manifest, env, csv_exists, backup_folder_id, row, entered, enteredInRow, listed, rowsInvoked,
                   relocated, lost>>

\* a test that takes every create_folder for a success
CreateNeverFailed(new_folder_id) == FALSE

\* if not new_folder_id
CreateFailed(new_folder_id) == new_folder_id = None

\* the test of new_folder_id, then the first call of list_files_in_folder
PIAfterCreate ==
    /\ Running("process_item", "after_create")
    /\ LET f == [Top EXCEPT !.new_folder_id = ret.id]
       IN Apply(
            IF CreateFailed(f.new_folder_id)
            THEN PIReturn(Report(Ctl, f.file_id))
            ELSE [Ctl EXCEPT !.stack =
                    Push(ReplaceTop(@, [f EXCEPT !.pc = "after_list"]),
                         Frame("list_files_in_folder", f.file_id, None, ""))])
    /\ UNCHANGED <<drive, manifest, env, csv_exists, backup_folder_id, row, entered, enteredInRow, listed, rowsInvoked,
                   relocated, lost>>

\* list_files_in_folder takes two arguments and is called with three
TooManyArguments == [type |-> "TypeError", status |-> 0, applied |-> FALSE]

\* items of the first page; while 'nextPageToken' in results: the call for
\* the next page
PIAfterList ==
    /\ Running("process_item", "after_list")
    /\ LET f == [Top EXCEPT !.items = ret.files, !.pc = "loop"]
           g == Frame("list_files_in_folder", f.file_id, None, "")
       IN /\ Apply(
                IF ret.token
                THEN Abort(Ctl, g, TooManyArguments, "TypeError")
                ELSE [Ctl EXCEPT !.stack = ReplaceTop(@, f)])
          /\ listed' = [listed EXCEPT ![f.file_id] =
                [paged |-> ret.token, looped |-> ~ret.token,
                 items |-> IF ret.token THEN <<>> ELSE f.items,
                 children |-> ChildrenSeq(drive, f.file_id),
                 mirror |-> f.new_folder_id]]
    /\ UNCHANGED <<drive, manifest, env, csv_exists, backup_folder_id, row, entered, enteredInRow, rowsInvoked,
                   relocated, lost>>

\* a loop that leaves the last item out
LoopSkipsLast(items, idx) == idx < Len(items)

\* for item in items: goes on while an item is left
LoopHasNext(items, idx) == idx <= Len(items)

\* a child handed the folder's own destination
ChildDestinationParent(f) == f.dest

\* the destination process_item hands to a child: the mirror folder
ChildDestination(f) == f.new_folder_id

\* a loop that stays on the item it has just handled
SameIndex(idx) == idx

\* for item in items: on to the next item
NextIndex(idx) == idx + 1

\* one iteration of the for loop: the call of process_item on the next child
\* with the mirror folder as its destination; after the loop, the call of
\* move_file on the folder
PILoop ==
    /\ Running("process_item", "loop")
    /\ LET f == Top
       IN Apply(
            IF LoopHasNext(f.items, f.idx)
            THEN [Ctl EXCEPT !.stack =
                    Push(ReplaceTop(@, [f EXCEPT !.idx = NextIndex(@)]),
                         Frame("process_item", f.items[f.idx], ChildDestination(f), ""))]
            ELSE [Ctl EXCEPT !.stack =
                    Push(ReplaceTop(@, [f EXCEPT !.pc = "after_move"]),
                         Frame("move_file", f.file_id, f.dest, ""))])
    /\ UNCHANGED <<drive, manifest, env, csv_exists, backup_folder_id, row, entered, enteredInRow, listed, rowsInvoked,
                   relocated, lost>>

\* a test that takes every copy for a success
NeverFailed(copied_file_id) == FALSE

\* if not copied_file_id
CopyFailed(copied_file_id) == copied_file_id = None

\* the test of the copy, then the call of move_file or of the fallback
PIAfterCopy ==
    /\ Running("process_item", "after_copy")
    /\ LET f == [Top EXCEPT !.copied = ret.id]
       IN Apply(
            IF CopyFailed(f.copied)
            THEN [Ctl EXCEPT !.stack =
                    Push(ReplaceTop(@, [f EXCEPT !.pc = "after_fallback"]),
                         Frame("download_and_upload_file", f.file_id, None, f.meta.name))]
            ELSE [Ctl EXCEPT !.stack =
                    Push(ReplaceTop(@, [f EXCEPT !.pc = "after_move"]),
                         Frame("move_file", f.file_id, f.dest, ""))])
    /\ UNCHANGED <<drive, manifest, env, csv_exists, backup_folder_id, row, entered, enteredInRow, listed, rowsInvoked,
                   relocated, lost>>

\* the second test of copied_file_id, then the call of move_file
PIAfterFallback ==
    /\ Running("process_item", "after_fallback")
    /\ LET f == [Top EXCEPT !.copied = ret.id]
       IN Apply(
            IF CopyFailed(f.copied)
            THEN PIReturn(Report(Ctl, f.file_id))
            ELSE [Ctl EXCEPT !.stack =
                    Push(ReplaceTop(@, [f EXCEPT !.pc = "after_move"]),
                         Frame("move_file", f.file_id, f.dest, ""))])
    /\ UNCHANGED <<drive, manifest, env, csv_exists, backup_folder_id, row, entered, enteredInRow, listed, rowsInvoked,
                   relocated, lost>>

\* move_file returned; its result is not looked at
PIAfterMove ==
    /\ Running("process_item", "after_move")
    /\ Apply(PIReturn(Ctl))
    /\ UNCHANGED <<drive, manifest, env, csv_exists, backup_folder_id, row, entered, enteredInRow, listed, rowsInvoked,
                   relocated, lost>>

(***************************************************************************)
(* Specification                                                            *)
(***************************************************************************)
\* main has not started: nothing called, nothing recorded
InitControl ==
    /\ pcMain = "lookup"
    /\ backup_folder_id = None
    /\ row = 1
    /\ stack = <<>>
    /\ ret = RetNone
    /\ aborted = "none"
    /\ entered = {}
    /\ enteredInRow = {}
    /\ returned = {}
    /\ reported = {}
    /\ lastOutcome = NoOutcome
    /\ listed = [i \in Ids |-> NoListing]
    /\ rowsInvoked = {}
    /\ relocated = {}
    /\ lost = 0

\* the file of rows is there, or there is no file and so no row
CsvFiles == {<<TRUE, m>> : m \in Manifests} \cup {<<FALSE, <<>>>>}

Init ==
    /\ \E withBak \in BOOLEAN : drive = InitialDrive(withBak)
    /\ \E c \in CsvFiles : csv_exists = c[1] /\ manifest = c[2]
    /\ env = "flaky"
    /\ InitControl

Next ==
    \/ MainLookup
    \/ MainAfterCreate
    \/ CsvOpen
    \/ CsvRow
    \/ CsvEnd
    \/ PIStart
    \/ PIAfterMeta
    \/ PIAfterCreate
    \/ PIAfterList
    \/ PILoop
    \/ PIAfterCopy
    \/ PIAfterFallback
    \/ PIAfterMove
    \/ GetMetadataAttempt
    \/ CreateFolderAttempt
    \/ CopyFileStart
    \/ CopyFileAfterMeta
    \/ MoveFileAttempt
    \/ DownloadStart
    \/ DownloadAfterMeta
    \/ ListAttempt

Spec == Init /\ [][Next]_vars

Done == pcMain \in {"finished", "aborted", "crashed"}

\* a row that repeats the row before it
RepeatedRow == <<HeaderRow, RowFile("f1"), RowFile("f1")>>

\* a row for a folder, then a row for a file that folder holds
NestedRows == <<HeaderRow, RowFolder("G"), RowFile("b")>>

\* rows that come to one item more than once
RepeatManifests == {RepeatedRow, NestedRows}

\* the longest runs: the backup folder is still to be created
InitFair ==
    /\ drive = InitialDrive(FALSE)
    /\ \E c \in CsvFiles \cup {<<TRUE, m>> : m \in RepeatManifests} :
            csv_exists = c[1] /\ manifest = c[2]
    /\ env = "flaky"
    /\ InitControl

\* the interpreter runs the program on: a step that can be taken is taken
FairSpec == InitFair /\ [][Next]_vars /\ WF_vars(Next)

(***************************************************************************)
(* The end-to-end run: a remote on which no call fails, no 'bak' folder     *)
(* before the run, one row for a file and one row for a folder holding two  *)
(* files                                                                    *)
(***************************************************************************)
\* f1 and folder F in the root, F holding the files a and b
E2EDrive ==
    [i \in Ids |->
        CASE i = "f1" -> Item(DOC_MIME, ROOT, "report", None)
          [] i = "F"  -> Item(FOLDER_MIME, ROOT, "dir", None)
          [] i = "a"  -> Item(PDF_MIME, "F", "a.pdf", None)
          [] i = "b"  -> Item(PDF_MIME, "F", "b.pdf", None)
          [] OTHER -> Absent]

\* the row of the file, then the row of the folder
E2EFileThenFolder == <<HeaderRow, RowFile("f1"), RowFolder("F")>>

E2EManifests ==
    { E2EFileThenFolder,
      <<HeaderRow, RowFolder("F"), RowFile("f1")>>,
      <<HeaderRow, RowShort, RowFile("f1"), RowOther, RowFolder("F")>> }

InitE2E ==
    /\ drive = E2EDrive
    /\ manifest \in E2EManifests
    /\ csv_exists = TRUE
    /\ env = "reliable"
    /\ InitControl

\* the steps of a run in which copy_file never fails
NextE2E ==
    \/ MainLookup
    \/ MainAfterCreate
    \/ CsvOpen
    \/ CsvRow
    \/ CsvEnd
    \/ PIStart
    \/ PIAfterMeta
    \/ PIAfterCreate
    \/ PIAfterList
    \/ PILoop
    \/ PIAfterCopy
    \/ PIAfterMove
    \/ GetMetadataAttempt
    \/ CreateFolderAttempt
    \/ CopyFileStart
    \/ CopyFileAfterMeta
    \/ MoveFileAttempt
    \/ ListAttempt

SpecE2E == InitE2E /\ [][NextE2E]_vars

(***************************************************************************)
(* The second run: the driver started again on the manifest and the tree    *)
(* that a failure-free first run has left                                   *)
(***************************************************************************)
\* the tree the end-to-end run over E2EFileThenFolder leaves: the backup
\* folder n1, the duplicate n2 of f1 beside where f1 was, the mirror n3 of F,
\* the duplicates n4 and n5 of a and b inside F, the originals moved
MigratedDrive ==
    [i \in Ids |->
        CASE i = "n1" -> Item(FOLDER_MIME, ROOT, BACKUP_FOLDER_NAME, None)
          [] i = "f1" -> Item(DOC_MIME, "n1", "report", None)
          [] i = "n2" -> Item(DOC_MIME, ROOT, "report", "f1")
          [] i = "n3" -> Item(FOLDER_MIME, "n1", "dir", "F")
          [] i = "a"  -> Item(PDF_MIME, "n3", "a.pdf", None)
          [] i = "n4" -> Item(PDF_MIME, "F", "a.pdf", "a")
          [] i = "b"  -> Item(PDF_MIME, "n3", "b.pdf", None)
          [] i = "n5" -> Item(PDF_MIME, "F", "b.pdf", "b")
          [] i = "F"  -> Item(FOLDER_MIME, "n1", "dir", None)
          [] OTHER -> Absent]

InitRerun ==
    /\ drive = MigratedDrive
    /\ manifest = E2EFileThenFolder
    /\ csv_exists = TRUE
    /\ env \in {"reliable", "flaky"}
    /\ InitControl

\* the steps of a run that finds the backup folder
NextRerun ==
    \/ MainLookup
    \/ CsvOpen
    \/ CsvRow
    \/ CsvEnd
    \/ PIStart
    \/ PIAfterMeta
    \/ PIAfterCreate
    \/ PIAfterList
    \/ PILoop
    \/ PIAfterCopy
    \/ PIAfterFallback
    \/ PIAfterMove
    \/ GetMetadataAttempt
    \/ CreateFolderAttempt
    \/ CopyFileStart
    \/ CopyFileAfterMeta
    \/ MoveFileAttempt
    \/ DownloadStart
    \/ DownloadAfterMeta
    \/ ListAttempt

SpecRerun == InitRerun /\ [][NextRerun]_vars

(***************************************************************************)
(* The extraction of identifiers: process_csv run on a first row and one    *)
(* more row, whose url is any sequence of tokens holding at most one marker *)
(***************************************************************************)
\* "x" is any text without white space, "/", "?" or a marker
UrlTokens == {"x", " ", "/", "?", "ABC123", FILE_MARK, FOLDER_MARK}

Markers(url) == {k \in 1..Len(url) : url[k] \in {FILE_MARK, FOLDER_MARK}}

Urls ==
    {u \in UNION {[1..n -> UrlTokens] : n \in 0..MaxUrlLen} : Cardinality(Markers(u)) <= 1}

UrlRows == {<<>>, RowShort} \cup {<<<<"item">>, u>> : u \in Urls}

\* the first row is the header or looks like a data row
UrlManifests == {<<h, r>> : h \in {HeaderRow, RowFile("ABC123")}, r \in UrlRows}

InitUrl ==
    /\ drive = InitialDrive(TRUE)
    /\ manifest \in UrlManifests
    /\ csv_exists = TRUE
    /\ env = "reliable"
    /\ InitControl

\* the steps of a run whose rows name no item of the remote
NextUrl ==
    \/ MainLookup
    \/ CsvOpen
    \/ CsvRow
    \/ CsvEnd
    \/ PIStart
    \/ PIAfterMeta
    \/ GetMetadataAttempt

SpecUrl == InitUrl /\ [][NextUrl]_vars

(***************************************************************************)
(* Properties                                                               *)
(***************************************************************************)
\* the folders above the items of S, n levels up
RECURSIVE Above(_, _, _)
Above(d, S, n) ==
    IF n = 0 THEN S
    ELSE Above(d, S \cup UNION {d[i].parents : i \in S \cap Ids}, n - 1)

\* item i lies in the subtree of folder m
Under(d, i, m) == m \in Above(d, d[i].parents, Cardinality(Ids))

\* frame k is a call of move_file made by process_item on its own item
IsRelocateCall(k) ==
    /\ k \in 2..Len(stack)
    /\ stack[k].fn = "move_file"
    /\ stack[k - 1].fn = "process_item"

IsFolderFrame(f) == f.meta.mimeType = FOLDER_MIME

\* C1: process_item calls move_file on a file only when copied_file_id holds
\* the identifier copy_file or download_and_upload_file returned for that
\* file, which names a duplicate of it on the remote.
C1_FileRelocatedOnlyAfterDuplicate ==
    \A k \in 1..Len(stack) :
        (IsRelocateCall(k) /\ ~IsFolderFrame(stack[k - 1]))
        => /\ stack[k - 1].copied # None
           /\ Exists(drive, stack[k - 1].copied)
           /\ drive[stack[k - 1].copied].src = stack[k].file_id

\* a file is being relocated, after its direct copy had succeeded
C1_Witness ==
    \E k \in 1..Len(stack) :
        /\ IsRelocateCall(k)
        /\ ~IsFolderFrame(stack[k - 1])
        /\ stack[k].file_id = "a"
        /\ stack[k].attempts = 1

\* C2: in every state, whatever remote calls failed, each item of the
\* initial tree exists and is either where it was or in the tree below the
\* backup folder.
C2_NoItemLost ==
    \A i \in OrigIds :
        /\ Exists(drive, i)
        /\ \/ drive[i].parents = OrigParents(i)
           \/ /\ backup_folder_id # None
              /\ drive[i].parents # {}
              /\ \A p \in drive[i].parents :
                    p = backup_folder_id \/ Under(drive, p, backup_folder_id)

\* the run ended on an exception with a moved besides an unmoved sibling
C2_Witness ==
    /\ pcMain = "finished"
    /\ aborted # "none"
    /\ drive["a"].parents # OrigParents("a")
    /\ drive["G"].parents = OrigParents("G")
    /\ drive["F"].parents = OrigParents("F")

\* C3 as stated: process_item calls move_file on a folder only when every
\* listed child has been relocated into the mirror folder.
C3_FolderRelocatedOnlyIfChildrenSucceeded ==
    \A k \in 1..Len(stack) :
        (IsRelocateCall(k) /\ IsFolderFrame(stack[k - 1]))
        => \A j \in 1..Len(stack[k - 1].items) :
              drive[stack[k - 1].items[j]].parents = {stack[k - 1].new_folder_id}

\* C3 amended: process_item calls move_file on a folder only when
\* process_item has returned for every listed child, relocated or not.
C3_FolderRelocatedAfterChildrenReturned ==
    \A k \in 1..Len(stack) :
        (IsRelocateCall(k) /\ IsFolderFrame(stack[k - 1]))
        => \A j \in 1..Len(stack[k - 1].items) :
              stack[k - 1].items[j] \in returned

\* folder F is being relocated although its child a was left in place
C3_Witness ==
    \E k \in 1..Len(stack) :
        /\ IsRelocateCall(k)
        /\ stack[k].file_id = "F"
        /\ Len(stack[k - 1].items) = 2
        /\ drive["a"].parents = OrigParents("a")
        /\ "a" \in reported

\* a step by which the folder frame at depth k calls process_item on a child
StartsChild(k) ==
    /\ Len(stack) = k
    /\ Len(stack') = k + 1
    /\ stack[k].fn = "process_item"
    /\ stack'[k + 1].fn = "process_item"

\* a step by which the folder frame at depth k calls move_file on its folder
StartsFolderRelocate(k) ==
    /\ Len(stack) = k
    /\ Len(stack') = k + 1
    /\ stack[k].fn = "process_item"
    /\ IsFolderFrame(stack[k])
    /\ stack'[k + 1].fn = "move_file"

\* C4: the folder's move_file is called only once process_item has returned
\* for every listed child; a child is started only when the mirror folder
\* exists on the remote; and once the folder's move_file has been called the
\* frame starts no child any more.
C4_Order ==
    [][\A k \in 1..Len(stack) :
        /\ StartsFolderRelocate(k)
            => /\ \A j \in 1..Len(stack[k].items) : stack[k].items[j] \in returned
               /\ stack[k].idx = Len(stack[k].items) + 1
        /\ StartsChild(k)
            => /\ stack[k].new_folder_id # None
               /\ Exists(drive, stack[k].new_folder_id)
               /\ drive[stack[k].new_folder_id].kind = FOLDER_MIME
               /\ stack[k].pc = "loop"
               /\ stack'[k + 1].file_id \notin returned
        /\ (stack[k].fn = "process_item" /\ stack[k].pc = "after_move")
            => /\ Len(stack) <= k + 1
               /\ Len(stack') <= k + 1
               /\ (Len(stack') = k + 1 => stack'[k + 1].fn = "move_file")]_vars

\* folder F is being relocated after both of its children were processed
C4_Witness ==
    \E k \in 1..Len(stack) :
        /\ IsRelocateCall(k)
        /\ stack[k].file_id = "F"
        /\ {"a", "G", "b"} \subseteq returned
        /\ listed["F"].mirror # None

\* C5: once a folder whose children were listed has been relocated, each
\* child seen by that listing is in the subtree of the folder's mirror
\* folder or has had a failure printed for it.
C5_ChildrenRelocatedOrReported ==
    \A i \in Ids :
        (i \in relocated /\ listed[i].looped)
        => \A j \in 1..Len(listed[i].children) :
              LET c == listed[i].children[j]
              IN \/ Under(drive, c, listed[i].mirror)
                 \/ c \in reported

\* F was relocated with one child under its mirror and the other child, whose
\* own relocate failed, reported
C5_Witness ==
    /\ "F" \in relocated
    /\ Under(drive, "G", listed["F"].mirror)
    /\ ~Under(drive, "a", listed["F"].mirror)
    /\ drive["a"].parents = OrigParents("a")
    /\ \E i \in NewIds : drive[i].src = "a"

HasIdentifier(r) == ~RowSkipped(r) /\ ExtractId(Strip(r[2])) # <<>>

\* C6: when the run has ended, process_item was invoked for every row with
\* an extractable identifier.
C6_EveryRowAttempted ==
    pcMain = "finished"
    => \A r \in 2..Len(manifest) :
          HasIdentifier(manifest[r]) => r \in rowsInvoked

\* C7: when the run has ended, process_item was invoked on every child of
\* every folder whose loop over the children was entered.
C7_EverySiblingAttempted ==
    pcMain = "finished"
    => \A i \in Ids :
          listed[i].looped
          => \A j \in 1..Len(listed[i].items) : listed[i].items[j] \in entered

IsDecorated(f) == f.fn # "process_item"

\* C8: a decorated call that ends on the retries-exhausted error made
\* exactly MAX_RETRIES calls of func and the error names it; one whose first
\* call raised a permanent HTTP error made exactly one call and raised that
\* error; a decorated call in progress has failed fewer than MAX_RETRIES times
\* and every failure so far was a call of func.
C8_RetryPolicy ==
    /\ lastOutcome.cause = "MaxRetries"
        => /\ lastOutcome.attempts = MAX_RETRIES
           /\ lastOutcome.retries = MAX_RETRIES
           /\ lastOutcome.result = "raise"
           /\ lastOutcome.op # ""
           /\ aborted = "Exception"
    /\ (lastOutcome.cause = "HttpPermanent" /\ lastOutcome.result = "raise"
            /\ lastOutcome.retries = 0)
        => lastOutcome.attempts = 1
    /\ \A k \in 1..Len(stack) :
          IsDecorated(stack[k])
          => /\ stack[k].retries < MAX_RETRIES
             /\ stack[k].attempts <= MAX_RETRIES
             /\ stack[k].attempts - stack[k].retries \in {0, 1}

\* the listing of F failed on a transient error MAX_RETRIES times
C8_Witness ==
    /\ lastOutcome.cause = "MaxRetries"
    /\ lastOutcome.op = "list_files_in_folder"
    /\ lastOutcome.attempts = MAX_RETRIES

\* C9: no decorated call returns a failure result because of a rate-limit or
\* 5xx response before MAX_RETRIES attempts were made.
C9_TransientAlwaysRetried ==
    (lastOutcome.cause = "HttpTransient" /\ lastOutcome.result = "None")
    => lastOutcome.attempts >= MAX_RETRIES

\* C10: a listing whose first response carried a next-page token gives the
\* loop all the children of the folder, in the remote's order.
C10_PagedListingComplete ==
    \A i \in Ids :
        listed[i].paged
        => /\ listed[i].looped
           /\ listed[i].items = listed[i].children

\* the 'bak' folders the run created in the root
BackupRootsCreated ==
    {n \in NewIds : drive[n].kind = FOLDER_MIME /\ drive[n].src = None}

\* the mirror folders the run created
MirrorsCreated ==
    {n \in NewIds : drive[n].kind = FOLDER_MIME /\ drive[n].src # None}

\* the duplicates of files the run created
Duplicates ==
    {n \in NewIds : Exists(drive, n) /\ drive[n].kind # FOLDER_MIME /\ drive[n].src # None}

\* the dependency order of the end-to-end run: what came later implies what
\* had to come first
E2EOrder ==
    /\ (entered # {} \/ MirrorsCreated # {} \/ Duplicates # {} \/ relocated # {})
        => /\ backup_folder_id \in BackupRootsCreated
           /\ drive[backup_folder_id].parents = {ROOT}
    /\ \A i \in relocated \cap {"f1", "a", "b"} : \E n \in Duplicates : drive[n].src = i
    /\ ({"a", "b"} \cap entered # {})
        => \E m \in MirrorsCreated :
              /\ drive[m].src = "F"
              /\ drive[m].parents = {backup_folder_id}
    /\ "F" \in relocated
        => /\ {"a", "b"} \subseteq relocated
           /\ \A c \in {"a", "b"} : drive[c].parents = MirrorsCreated
           /\ drive["F"].parents = {backup_folder_id}
    /\ "f1" \in relocated => drive["f1"].parents = {backup_folder_id}

\* the number of remote operations of each kind a finished end-to-end run made
E2ECounts(relocations) ==
    /\ aborted = "none"
    /\ Cardinality(BackupRootsCreated) = 1
    /\ Cardinality(MirrorsCreated) = 1
    /\ Cardinality(Duplicates) = 3
    /\ Cardinality(relocated) = relocations
    /\ manifest = E2EFileThenFolder => drive = MigratedDrive

\* C11 as stated: with no remote failure, a file row, a row for a folder of
\* two files and no 'bak' folder before the run, the run makes 1 create of the
\* backup folder, 1 create of a mirror folder, 3 duplications and 3
\* relocations, in dependency order.
C11_EndToEndThreeRelocations ==
    /\ E2EOrder
    /\ pcMain = "finished" => E2ECounts(3)

\* C11 amended: the run makes 1 create of the backup folder, 1 create of a
\* mirror folder under it, 3 duplications and 4 relocations (the file, the two
\* children and the folder itself); the backup folder is created before
\* anything else, each file is duplicated before it is relocated, the mirror is
\* created before either child is processed, and both children are under the
\* mirror before the folder is relocated under the backup folder.
C11_EndToEndFourRelocations ==
    /\ E2EOrder
    /\ pcMain = "finished" => E2ECounts(4)

\* the failure-free run has finished, every item relocated
C11_Witness ==
    /\ env = "reliable"
    /\ pcMain = "finished"
    /\ relocated = {"f1", "a", "b", "F"}
    /\ Cardinality(Duplicates) = 3

\* the items the rows of the end-to-end manifest name
E2ERowEntries == {i \in OrigIds : E2EDrive[i].parents = {ROOT}}

\* C12: once a manifest entry, file or folder, has been migrated by a run
\* without failure, the original is in the backup folder and a duplicate of it
\* lies under the entry's original parent.
C12_DuplicateInPlace ==
    \A e \in E2ERowEntries :
        (e \in returned /\ e \in relocated)
        => /\ drive[e].parents = {backup_folder_id}
           /\ \E n \in NewIds :
                 /\ drive[n].src = e
                 /\ drive[n].kind = E2EDrive[e].kind
                 /\ drive[n].parents = E2EDrive[e].parents

\* the causes by which the remote makes a decorated call end without a value
RemoteRefusal == {"HttpTransient", "HttpPermanent", "OSError", "MaxRetries", "nometa"}

\* C13: a call of download_and_upload_file that the remote refused nothing of
\* returns to process_item the identifier of an item newly created from the
\* file, so that process_item goes on to move_file.
C13_FallbackReturnsDuplicate ==
    (lastOutcome.op = "download_and_upload_file" /\ lastOutcome.cause \notin RemoteRefusal)
    => /\ lastOutcome.result = "value"
       /\ ret.id \in NewIds
       /\ drive[ret.id].src = lastOutcome.file_id
       /\ Running("process_item", "after_fallback")

\* the folders of the initial tree
Folders == {i \in OrigIds : InitialDrive(FALSE)[i].kind = FOLDER_MIME}

\* folder -> the items of the initial tree below it
DescendantsOf == [i \in Folders |-> {c \in OrigIds : Under(InitialDrive(FALSE), c, i)}]

\* the items of the initial tree below folder i
Descendants(i) == DescendantsOf[i]

\* folder i is where it was and nothing below it has changed: no item below it
\* was handed to process_item, moved or renamed, and nothing was created in i
\* or in a folder below it
Untouched(i) ==
    /\ i \notin relocated
    /\ drive[i] = InitialDrive(FALSE)[i]
    /\ \A c \in Descendants(i) :
          /\ c \notin entered
          /\ c \notin relocated
          /\ drive[c] = InitialDrive(FALSE)[c]
    /\ \A n \in NewIds : drive[n].parents \cap ({i} \cup Descendants(i)) = {}

\* the call of create_folder for the mirror of folder i, or the call of
\* list_files_in_folder on i, has just ended without a value
MirrorOrListingFailed(i) ==
    /\ lastOutcome.op \in {"create_folder", "list_files_in_folder"}
    /\ lastOutcome.file_id = i
    /\ lastOutcome.result \in {"None", "raise"}

\* the mirror of folder i was created and the listing of i reached the loop
MirroredAndListed(i) ==
    /\ listed[i].looped
    /\ listed[i].mirror \in NewIds
    /\ drive[listed[i].mirror].kind = FOLDER_MIME
    /\ drive[listed[i].mirror].src = i

\* C14: when create_folder for the mirror of a folder, or the listing of the
\* folder, ends without a value (failure result, permanent error, retries
\* exhausted), the folder's invocation goes no further: no child is handed to
\* process_item, the folder is not relocated and nothing below it changes, then
\* or later in the run.
C14_FailedBranchStops ==
    \A i \in Folders :
        /\ MirrorOrListingFailed(i)
            => /\ Untouched(i)
               /\ \A k \in 1..Len(stack) :
                     (stack[k].fn = "process_item" /\ stack[k].file_id = i)
                     => /\ k = Len(stack)
                        /\ stack[k].pc = "after_create"
                        /\ ret.id = None
        /\ ~Untouched(i) => MirroredAndListed(i)

\* the listing of G was refused for good after its sibling a had been
\* relocated, and G with its child is as it was
C14_Witness ==
    /\ lastOutcome.op = "list_files_in_folder"
    /\ lastOutcome.file_id = "G"
    /\ lastOutcome.cause = "HttpPermanent"
    /\ "a" \in relocated
    /\ "G" \in returned
    /\ Untouched("G")

\* main has ended before process_csv was called
RunAborted == pcMain \in {"aborted", "crashed"}

\* main has gone on to process_csv
RowsReached == pcMain \in {"csv_open", "csv", "finished"}

\* frame f is main's call of create_folder for the backup folder
IsBackupCreate(f) == f.fn = "create_folder" /\ f.file_id = None

\* a step by which main calls create_folder for the backup folder
StartsBackupCreate ==
    /\ stack = <<>>
    /\ stack' # <<>>
    /\ IsBackupCreate(stack'[1])

\* what holds in every state of a run about the backup folder
BackupRootState ==
    /\ RunAborted
        => /\ row = 1
           /\ rowsInvoked = {}
           /\ entered = {}
           /\ relocated = {}
           /\ MirrorsCreated = {}
           /\ Duplicates = {}
           /\ stack = <<>>
    /\ RowsReached
        => /\ backup_folder_id \in Ids
           /\ drive[backup_folder_id].kind = FOLDER_MIME
           /\ drive[backup_folder_id].name = BACKUP_FOLDER_NAME
           /\ drive[backup_folder_id].parents = {ROOT}
    /\ Exists(drive, OldBak)
        => /\ backup_folder_id \in {None, OldBak}
           /\ BackupRootsCreated = {}
           /\ \A k \in 1..Len(stack) : ~IsBackupCreate(stack[k])
    /\ (~Exists(drive, OldBak) /\ RowsReached) => backup_folder_id \in BackupRootsCreated
    /\ \A k \in 1..Len(stack) : IsBackupCreate(stack[k]) => (k = 1 /\ pcMain = "create")

\* C15: a run whose lookup of the backup folder raised, or whose create_folder
\* for it returned None or raised, ends with no row read and no copy, mirror
\* create or relocate made; a backup folder the lookup found is the one used and
\* create_folder is not called for it; main calls create_folder for the backup
\* folder only from the lookup that found none, which a run makes once.
C15_BackupRootLocatedOrCreatedOnce ==
    /\ []BackupRootState
    /\ [][StartsBackupCreate => (pcMain = "lookup" /\ BakFolders(drive) = <<>>)]_vars
    /\ [][pcMain # "lookup" => pcMain' # "lookup"]_vars

\* the lookup found no backup folder, create_folder returned None and main
\* ended at once
C15_Witness ==
    /\ pcMain = "aborted"
    /\ aborted = "none"
    /\ ~Exists(drive, OldBak)
    /\ None \in reported
    /\ row = 1

\* the items the run created from item i: its duplicates or its mirrors
CreatedFrom(i) == {n \in NewIds : Exists(drive, n) /\ drive[n].src = i}

\* C16: the wrapper calls copy_file or create_folder again only when the call
\* that failed has created nothing, so that a run creates at most one duplicate
\* of a file and at most one mirror of a folder.
C16_NoRepeatOfAppliedCreate ==
    /\ \A i \in OrigIds : Cardinality(CreatedFrom(i)) <= 1
    /\ \A k \in 1..Len(stack) :
          (stack[k].fn \in {"copy_file", "create_folder"} /\ stack[k].retries > 0
                /\ stack[k].file_id # None)
          => CreatedFrom(stack[k].file_id) = {}

\* id is the part of url that follows the marker at position k, up to the
\* first token stop after it or to the end of url
IsSegment(url, k, id, stop) ==
    /\ k + Len(id) <= Len(url)
    /\ id = SubSeq(url, k + 1, k + Len(id))
    /\ \A j \in 1..Len(id) : id[j] # stop
    /\ (k + Len(id) = Len(url) \/ url[k + Len(id) + 1] = stop)

\* id is what the two url shapes give for url
IsIdentifierOf(url, id) ==
    /\ \A k \in 1..Len(url) :
          /\ url[k] = FILE_MARK => IsSegment(url, k, id, "/")
          /\ url[k] = FOLDER_MARK => IsSegment(url, k, id, "?")
    /\ Markers(url) = {} => id = <<>>

\* C17: for every row process_csv has gone through, the white space around
\* the url left aside, the identifier taken from
\* a url holding "drive.google.com/file/d/" is the text between that marker and
\* the next "/", the one taken from a url holding
\* "drive.google.com/drive/folders/" is the text between that marker and the
\* first "?" after it, and a url holding neither gives none; process_item is
\* invoked, on exactly that identifier, for the rows that give a non-empty
\* one, and is not invoked for the first row, for an empty row or for a row of
\* one column.
C17_IdentifierExtraction ==
    \A r \in 1..Len(manifest) :
        r < row
        => LET hasUrl == r > 1 /\ Len(manifest[r]) >= 2
               url == IF hasUrl THEN Strip(manifest[r][2]) ELSE <<>>
               id == ExtractId(url)
           IN /\ hasUrl => IsIdentifierOf(url, id)
              /\ r \in rowsInvoked <=> id # <<>>
              /\ (r = row - 1 /\ stack # <<>>)
                    => /\ id # <<>>
                       /\ stack[1].fn = "process_item"
                       /\ stack[1].file_id = IdOf(id)

\* process_item has been invoked on ABC123, taken from a file url with a
\* blank before the marker and more path after the identifier
C17_Witness ==
    /\ Len(manifest) = 2
    /\ manifest[2] = <<<<"item">>, <<" ", FILE_MARK, "ABC123", "/", "x">>>>
    /\ row = 3
    /\ Len(stack) = 1
    /\ stack[1].fn = "process_item"
    /\ stack[1].file_id = "ABC123"

\* C18: a second run over the manifest of a finished first run leaves the
\* remote tree as the first run left it: no further duplicate, no further
\* mirror folder, no item moved again.
C18_RerunChangesNothing ==
    /\ drive = MigratedDrive
    /\ relocated = {}

\* the folder that held item i before the run
OrigParent(i) == CHOOSE p \in OrigParents(i) : TRUE

\* where the run is to put item i of the initial tree: the backup folder for
\* an item of the root, the mirror of its folder for a child
DestinationOf(i) ==
    IF OrigParent(i) = ROOT THEN backup_folder_id ELSE listed[OrigParent(i)].mirror

\* frame k was called by a process_item frame
CalledByProcessItem(k) ==
    /\ k \in 2..Len(stack)
    /\ stack[k - 1].fn = "process_item"

\* C19: process_item invoked for a row has the backup folder as destination
\* and one invoked for a child has the mirror its caller created for the
\* child's folder in this run; create_folder for a mirror and move_file are
\* called with the destination of the invocation that calls them. So each
\* relocated item and each mirror lies directly under the backup folder when
\* its original was in the root and directly under the mirror of its original
\* folder otherwise, and a relocated folder lies where its mirror lies.
C19_DestinationThreaded ==
    /\ \A k \in 1..Len(stack) :
          /\ (k = 1 /\ stack[k].fn = "process_item")
                => /\ stack[k].dest = backup_folder_id
                   /\ backup_folder_id # None
          /\ (CalledByProcessItem(k) /\ stack[k].fn = "process_item")
                => /\ stack[k].dest = stack[k - 1].new_folder_id
                   /\ stack[k].dest \in MirrorsCreated
                   /\ drive[stack[k].dest].src = stack[k - 1].file_id
                   /\ drive[stack[k].dest].parents = {stack[k - 1].dest}
                   /\ stack[k - 1].file_id \in OrigParents(stack[k].file_id)
                   /\ stack[k].dest # backup_folder_id
          /\ (CalledByProcessItem(k) /\ stack[k].fn \in {"move_file", "create_folder"})
                => /\ stack[k].dest = stack[k - 1].dest
                   /\ stack[k].file_id = stack[k - 1].file_id
    /\ \A i \in Folders :
          listed[i].mirror # None
          => /\ listed[i].mirror \in MirrorsCreated
             /\ drive[listed[i].mirror].src = i
    /\ \A i \in relocated :
          /\ i \in OrigIds
          /\ DestinationOf(i) # None
          /\ drive[i].parents = {DestinationOf(i)}
          /\ (i \in Folders /\ listed[i].mirror # None)
                => drive[listed[i].mirror].parents = drive[i].parents
    /\ \A n \in MirrorsCreated :
          drive[n].parents = {DestinationOf(drive[n].src)}

\* b lies under the mirror of G, which lies under the mirror of F, which lies
\* with F under the backup folder
C19_Witness ==
    /\ {"a", "b", "G", "F"} \subseteq relocated
    /\ drive["b"].parents = {listed["G"].mirror}
    /\ drive[listed["G"].mirror].parents = {listed["F"].mirror}
    /\ drive["G"].parents = {listed["F"].mirror}
    /\ drive[listed["F"].mirror].parents = {backup_folder_id}
    /\ drive["F"].parents = {backup_folder_id}

\* a step by which process_item starts on an item
EntersItem(i) ==
    /\ Running("process_item", "start")
    /\ Top.file_id = i
    /\ stack' # stack

\* every run reaches the end of main, by return or by an uncaught error, and
\* on the way no decorated call makes more than MAX_RETRIES calls of its
\* function
Terminates ==
    /\ <>Done
    /\ [](\A k \in 1..Len(stack) : IsDecorated(stack[k]) => stack[k].attempts <= MAX_RETRIES)

\* C20, as stated: every run reaches the end of main with at most MAX_RETRIES
\* calls per decorated call, and process_item starts on no item twice in a
\* run.
C20_EnteredOncePerRun ==
    /\ Terminates
    /\ [][\A i \in Ids \cup {"zz"} : EntersItem(i) => i \notin entered]_vars

\* C20, amended: every run reaches the end of main with at most MAX_RETRIES
\* calls per decorated call, and process_item starts on no item twice while
\* one row is processed; it starts on an item once for every row that names
\* the item or a folder above it, hence at most as often as there are rows.
C20_EnteredOncePerRow ==
    /\ Terminates
    /\ [][\A i \in Ids \cup {"zz"} :
            EntersItem(i) => i \notin enteredInRow]_vars

\* the run has ended after a decorated call used up MAX_RETRIES attempts, in
\* the second of two rows that both came to the file b
C20_Witness ==
    /\ Done
    /\ manifest = NestedRows
    /\ aborted = "Exception"
    /\ rowsInvoked = {2, 3}
    /\ "G" \in returned
    /\ enteredInRow = {"b"}
    /\ lastOutcome.attempts = MAX_RETRIES

====
